---- MODULE Spec2Model ----
(***************************************************************************)
(* State-machine model of the Yandex Cloud instance dashboard:             *)
(*   - JWTCache and YandexComputeService._get_valid_jwt   (services.py)    *)
(*   - get_iam_token                                       (auth.py)       *)
(*   - iso_to_unix                                         (utils.py)      *)
(*   - list/start/stop and auto_start_stopped_instances    (services.py)   *)
(*   - the management endpoints, the lifespan handler and the periodic     *)
(*     background task                                     (app.py)        *)
(*                                                                         *)
(* Every handler of app.py is a coroutine that calls the synchronous       *)
(* service code without awaiting, so on the single event loop a handler    *)
(* (and a whole auto-start cycle) runs without interleaving with any other *)
(* coroutine.  The only await of the background task is asyncio.sleep.     *)
(* The identity and compute endpoints, the file system and the clock are   *)
(* the environment: what they answer is drawn from small sets.             *)
(***************************************************************************)
EXTENDS Integers, Sequences, FiniteSets, TLC

\* ------------------------------------------------------------ constants
SAFETY_MARGIN == 300
SLEEP_INTERVAL == 60
DEFAULT_PAGE_SIZE == 50
REQUEST_TIMEOUT == 30

\* --------------------------------------------------------------- bounds
\* Unix time at which the process starts serving.
Start == 1000
\* The clock is followed for this many seconds after Start.
Horizon == 120
\* Tokens the identity endpoint issues at most.
MaxIssued == 2
\* Instances of the folder that follow the RUNNING filler instances.
MaxTail == 2

MaxNow == Start + Horizon

Min(a, b) == IF a < b THEN a ELSE b
Max(a, b) == IF a < b THEN b ELSE a

\* ========================================================== token cache
\* Python's None, as a value of a str-typed slot.
None == "None"
\* A non-numeric JSON value in the 'expiry' slot of the cache file.
NonNumeric == -1

Tok(n) == "tok" \o ToString(n)

\* Python truthiness of a cached token: None and the empty string are falsy.
Truthy(tok) == tok \notin {None, ""}

\* Contents of jwt_cache.json.  kind: "absent" (no file), "unreadable" (open
\* raises IOError), "badjson" (not JSON, e.g. a truncated file), "nonobject"
\* (JSON, but not an object), "record" (an object; jwt = None when the key is
\* missing, expiry = 0 when the key is missing).
NoFile(kind) == [kind |-> kind, jwt |-> None, expiry |-> 0]
CacheRecord(jwt, expiry) == [kind |-> "record", jwt |-> jwt, expiry |-> expiry]

\* What the cache file may hold when the process starts.
InitCaches ==
    {NoFile("absent"), NoFile("badjson"), NoFile("nonobject")}
    \cup {CacheRecord(Tok(0), e) :
            e \in {Start - 100, Start + SAFETY_MARGIN, Start + SAFETY_MARGIN + 1,
                   NonNumeric}}

\* A load that never finds the file.
LoadMiss(c) == [raised |-> FALSE, token |-> None, expiry |-> 0]

\* JWTCache.load: (token, expiry), or an uncaught exception.
Load(c) ==
    CASE c.kind = "absent" -> [raised |-> FALSE, token |-> None, expiry |-> 0]
      [] c.kind \in {"unreadable", "badjson"} ->
            [raised |-> FALSE, token |-> None, expiry |-> 0]
      [] c.kind = "nonobject" -> [raised |-> TRUE, token |-> None, expiry |-> 0]
      [] OTHER -> [raised |-> FALSE, token |-> c.jwt, expiry |-> c.expiry]

\* Outcomes of JWTCache.save: the file is rewritten; open() fails and the file
\* is left as it was; or the write fails after open() has truncated the file.
\* Both failures are IOErrors, which save swallows.
SaveOutcomes == {"ok", "openfail", "writefail"}

\* A save that lets the IOError through.
SavePropagates(s) == s # "ok"

\* `except IOError` of JWTCache.save: the error is logged, save returns.
SaveRaises(s) == FALSE

\* A save that writes nothing.
SaveSkipped(c, jwt, expiry, s) == c

Save(c, jwt, expiry, s) ==
    CASE s = "ok" -> CacheRecord(jwt, expiry)
      [] s = "openfail" -> c
      [] OTHER -> NoFile("badjson")

\* ============================================================ identity
\* utils.iso_to_unix: isoparse, then int(dt.timestamp()): the fraction of a
\* second is dropped.  An ISO timestamp is [valid, sec, ms].
iso_to_unix(iso) == iso.sec

\* Seconds the identity endpoint takes to answer.
IdentityDelays == {0}
Lifetimes == {SAFETY_MARGIN, 43200}
Fractions == {0, 500}

\* How an exchange can fail: requests.post raises (no connection), or the
\* endpoint answers with a non-2xx status and an error body, which has no
\* "iamToken" key.  get_iam_token does not look at the status: the failure of
\* the second kind is the KeyError of data["iamToken"].
ExchangeFailures == {"neterr", "non2xx"}
ExchangeError(kind) == IF kind = "neterr" THEN "ConnectionError" ELSE "KeyError"

\* What auth.get_iam_token may do when called at time t with n tokens issued
\* so far: raise, or return (iamToken, expiresAt) after some delay.  expiresAt
\* is whatever the endpoint reports: a timestamp, or text that is no ISO
\* timestamp.
ExchangeOutcomes(t, n) ==
    {[kind |-> k, token |-> None, delay |-> d,
      expiresAt |-> [valid |-> FALSE, sec |-> 0, ms |-> 0]] :
        k \in ExchangeFailures,
        d \in {d \in IdentityDelays : t + d <= MaxNow}}
    \cup
    (IF n < MaxIssued
     THEN {[kind |-> "ok", token |-> Tok(n + 1), delay |-> d,
            expiresAt |-> [valid |-> TRUE, sec |-> t + d + life, ms |-> ms]] :
              d \in {d \in IdentityDelays : t + d <= MaxNow},
              life \in Lifetimes, ms \in Fractions}
          \cup
          {[kind |-> "ok", token |-> Tok(n + 1), delay |-> 0,
            expiresAt |-> [valid |-> FALSE, sec |-> 0, ms |-> 0]]}
     ELSE {})

\* The refresh test with the comparison turned round.
NeedsRefreshFlipped(tok, exp, t) == ~Truthy(tok) \/ t <= exp - SAFETY_MARGIN

\* A refresh test that looks only for a missing token.
NeedsRefreshWhenMissing(tok, exp, t) == ~Truthy(tok)

\* The refresh test of _get_valid_jwt.
NeedsRefresh(tok, exp, t) == ~Truthy(tok) \/ t >= exp - SAFETY_MARGIN

\* A failing call that removes the cache file.
JwtRaiseClearing(err, c, t, exch, d, iss, answer) ==
    [ok |-> FALSE, error |-> err, token |-> None, expiry |-> 0, exch |-> exch,
     saved |-> "none", after |-> NoFile("absent"), at |-> t, retAt |-> t + d,
     issued |-> iss, answer |-> answer]

\* A _get_valid_jwt call that raises err: the cache is as it was.
JwtRaise(err, c, t, exch, d, iss, answer) ==
    [ok |-> FALSE, error |-> err, token |-> None, expiry |-> 0, exch |-> exch,
     saved |-> "none", after |-> c, at |-> t, retAt |-> t + d, issued |-> iss,
     answer |-> answer]

\* YandexComputeService._get_valid_jwt, called at time t with cache c, when
\* the identity endpoint would answer x and the cache write would end s.
GetValidJwt(c, t, x, s) ==
    LET l == Load(c) IN
    IF l.raised THEN JwtRaise("AttributeError", c, t, 0, 0, 0, "none")
    ELSE IF Truthy(l.token) /\ l.expiry = NonNumeric
      THEN JwtRaise("TypeError", c, t, 0, 0, 0, "none")
    ELSE IF NeedsRefresh(l.token, l.expiry, t)
      THEN IF x.kind \in ExchangeFailures
             THEN JwtRaise(ExchangeError(x.kind), c, t, 1, x.delay, 0, x.kind)
           ELSE IF ~x.expiresAt.valid
             THEN JwtRaise("ValueError", c, t, 1, x.delay, 1, "badexpiry")
           ELSE IF SaveRaises(s)
             THEN [JwtRaise("IOError", Save(c, x.token, iso_to_unix(x.expiresAt), s),
                            t, 1, x.delay, 1, "ok") EXCEPT !.saved = s]
           ELSE [ok |-> TRUE, error |-> None, token |-> x.token,
                 expiry |-> iso_to_unix(x.expiresAt), exch |-> 1, saved |-> s,
                 after |-> Save(c, x.token, iso_to_unix(x.expiresAt), s),
                 at |-> t, retAt |-> t + x.delay, issued |-> 1,
                 answer |-> "ok"]
    ELSE [ok |-> TRUE, error |-> None, token |-> l.token, expiry |-> l.expiry,
          exch |-> 0, saved |-> "none", after |-> c, at |-> t,
          retAt |-> t, issued |-> 0, answer |-> "none"]

\* Every way a _get_valid_jwt call made at time t can end.
JwtRuns(c, t, n) ==
    {GetValidJwt(c, t, x, s) : x \in ExchangeOutcomes(t, n), s \in SaveOutcomes}

\* ============================================================= compute
ComputeDelays == {0, REQUEST_TIMEOUT}
Statuses == {200, 202, 500}

\* What the compute endpoint may do with a request: answer with a status, or
\* the requests library raises (connection error, or the 30 s timeout).
HttpOutcomes ==
    {[kind |-> "response", status |-> 200, delay |-> d] : d \in ComputeDelays}
    \cup {[kind |-> "response", status |-> st, delay |-> 0] : st \in Statuses}
    \cup {[kind |-> "neterr", status |-> 0, delay |-> 0]}

NoHttp == [kind |-> "unsent", status |-> 0, delay |-> 0]

\* The request is sent only when the token check returned.
HttpChoices(j) == IF j.ok THEN HttpOutcomes ELSE {NoHttp}

\* An operation that goes on without a token: the request leaves with the
\* header "Bearer None".
AuthenticatedWithoutToken(prefix, j, h) ==
    IF h.kind = "response" /\ h.status = 200
      THEN [ok |-> TRUE, error |-> None, sent |-> TRUE, status |-> 200,
            token |-> j.token, retAt |-> j.retAt + h.delay]
      ELSE [ok |-> FALSE, error |-> "network", sent |-> TRUE, status |-> 0,
            token |-> j.token, retAt |-> j.retAt + h.delay]

\* The shared shape of _make_request, start_instance and stop_instance: the
\* Authorization header is built from _get_valid_jwt() first (its exception
\* propagates, nothing is sent), then the request is made; only status 200
\* returns, every other status raises RequestException with the status.
Authenticated(prefix, j, h) ==
    IF ~j.ok
      THEN [ok |-> FALSE, error |-> j.error, sent |-> FALSE, status |-> 0,
            token |-> None, retAt |-> j.retAt]
    ELSE IF h.kind = "neterr"
      THEN [ok |-> FALSE, error |-> "network", sent |-> TRUE, status |-> 0,
            token |-> j.token, retAt |-> j.retAt + h.delay]
    ELSE IF h.status = 200
      THEN [ok |-> TRUE, error |-> None, sent |-> TRUE, status |-> 200,
            token |-> j.token, retAt |-> j.retAt + h.delay]
    ELSE [ok |-> FALSE, error |-> prefix \o ToString(h.status), sent |-> TRUE,
          status |-> h.status, token |-> j.token, retAt |-> j.retAt + h.delay]

MakeRequest(j, h) == Authenticated("API request failed with status ", j, h)
StartInstance(j, h) == Authenticated("Start operation failed with status ", j, h)
StopInstance(j, h) == Authenticated("Stop operation failed with status ", j, h)

\* ------------------------------------------------------------ the folder
InstStatuses == {"RUNNING", "STOPPED"}
Fillers == {0, DEFAULT_PAGE_SIZE - 1}

\* The tail of a folder: n named instances, each RUNNING or STOPPED, or a
\* single instance without a "name" key.
Tails(n) ==
    {[i \in 1..n |-> <<"vm", st[i]>>] : st \in [1..n -> InstStatuses]}
    \cup (IF n = 1 THEN {<<<<None, st>>>> : st \in InstStatuses} ELSE {})

\* The folder as the provider lists it: k RUNNING instances, then the tail.
\* An instance's id is its position.
Fleet(k, tl) ==
    [i \in 1..(k + Len(tl)) |->
        IF i <= k THEN [id |-> i, name |-> "vm", status |-> "RUNNING"]
        ELSE [id |-> i, name |-> tl[i - k][1], status |-> tl[i - k][2]]]

\* A folder with an instance in a status next to STOPPED: one that is
\* STOPPING, followed by a STOPPED one.
MixedFleet == Fleet(0, <<<<"vm", "STOPPING">>, <<"vm", "STOPPED">>>>)

Fleets ==
    UNION {{Fleet(k, tl) : tl \in Tails(n)} : k \in Fillers, n \in 0..MaxTail}
    \cup {MixedFleet}

\* Query parameters that never carry a page token.
ListParamsFirstPage(page_size, page_token) ==
    [pageSize |-> page_size, pageToken |-> None]

\* The query parameters list_instances builds: pageToken only when truthy.
ListParams(page_size, page_token) ==
    [pageSize |-> page_size,
     pageToken |-> IF Truthy(page_token) THEN page_token ELSE None]

\* The provider's page for these parameters: the page token of the second
\* page is "p2"; nextPageToken is absent on the last page.
ProviderPage(fleet, params) ==
    LET off == IF params.pageToken = "p2" THEN params.pageSize ELSE 0
        last == Min(Len(fleet), off + params.pageSize)
    IN [instances |-> SubSeq(fleet, off + 1, last),
        nextPageToken |-> IF Len(fleet) > last /\ off = 0 THEN "p2" ELSE None]

\* YandexComputeService.list_instances: the failure of _make_request is
\* logged and re-raised.
ListInstances(page_size, page_token, j, h, fleet) ==
    LET params == ListParams(page_size, page_token)
        r == MakeRequest(j, h)
        page == ProviderPage(fleet, params)
    IN [ok |-> r.ok, error |-> r.error, sent |-> r.sent, token |-> r.token,
        status |-> r.status, params |-> params, retAt |-> r.retAt,
        instances |-> IF r.ok THEN page.instances ELSE <<>>,
        provided |-> IF r.ok THEN page.nextPageToken ELSE None,
        nextPageToken |-> IF r.ok THEN page.nextPageToken ELSE None]

\* =========================================================== auto-start
\* instance.get("name", "unnamed")
InstanceName(inst) == IF inst.name = None THEN "unnamed" ELSE inst.name

\* A filter that takes every instance that is not running.
IsNotRunning(inst) == inst.status # "RUNNING"

\* [i for i in instances if i.get("status") == "STOPPED"]
IsStopped(inst) == inst.status = "STOPPED"
StoppedInstances(instances) == SelectSeq(instances, IsStopped)

\* A listing of a hundred instances per page.
AutoStartListArgsWide == [page_size |-> 100, page_token |-> None]

\* The arguments auto_start_stopped_instances passes to list_instances: none,
\* so the defaults page_size = 50 and page_token = None apply.
AutoStartListArgs == [page_size |-> DEFAULT_PAGE_SIZE, page_token |-> None]

\* What auto_start_stopped_instances hands to its caller: a returned dict,
\* or an exception.
Returned(value) == [raised |-> FALSE, value |-> value]
Raised(err) == [raised |-> TRUE, value |-> [error |-> err]]
NoOutcome == [raised |-> FALSE, value |-> [none |-> TRUE]]

\* An outer except that re-raises.
ListFailureRaises(err) == Raised(err)

\* The outer except of auto_start_stopped_instances.
ListFailure(err) ==
    Returned([started |-> <<>>, failed |-> <<>>, total_stopped |-> 0, error |-> err])

\* A result that counts only the instances it started.
BatchResultCountsStarted(started, failed, stopped) ==
    Returned([started |-> started, failed |-> failed, total_stopped |-> Len(started)])

\* The return statement after the loop over the stopped instances.
BatchResult(started, failed, stopped) ==
    Returned([started |-> started, failed |-> failed, total_stopped |-> Len(stopped)])

\* A loop that stops at the first start call that fails.
LoopDoneOnFailure(i, stopped, r) == i = Len(stopped) \/ ~r.ok

\* `for instance in stopped_instances` with the try/except inside the body:
\* the loop ends after the pass for the last instance, whatever the start
\* call r of a pass did.
LoopDone(i, stopped, r) == i = Len(stopped)

\* One pass of the loop body for instance inst, whose start call ended r.
StartedAfter(started, inst, r) ==
    IF r.ok THEN Append(started, [id |-> inst.id, name |-> InstanceName(inst)])
    ELSE started
\* A failed list that takes in only the calls whose request went out.
FailedAfterSent(failed, inst, r) ==
    IF r.ok \/ ~r.sent THEN failed
    ELSE Append(failed, [id |-> inst.id, name |-> InstanceName(inst), error |-> r.error])

FailedAfter(failed, inst, r) ==
    IF r.ok THEN failed
    ELSE Append(failed, [id |-> inst.id, name |-> InstanceName(inst), error |-> r.error])

\* The record of one service call, kept for the cycle that made it.
CallLog(op, id, params, r) ==
    [op |-> op, id |-> id, pageSize |-> params.pageSize,
     pageToken |-> params.pageToken, sent |-> r.sent, ok |-> r.ok,
     error |-> r.error, token |-> r.token]
NoParams == [pageSize |-> 0, pageToken |-> None]

\* ============================================================ scheduler
\* A loop that ends when an iteration reports or raises an error.
AfterIterationStopsOnError(out) ==
    IF out.raised \/ "error" \in DOMAIN out.value THEN "exited" ELSE "sleep"

\* auto_start_background_task: `while True` around try/except Exception.
\* Whatever the iteration returned or raised, the loop goes back to its sleep.
AfterIteration(out) == "sleep"

\* The except clause of the background task catches Exception only; the
\* CancelledError that task.cancel() throws into the pending sleep is a
\* BaseException and ends the task.
AfterCancel == "cancelled"

\* ===================================================== management API
\* start_instance / stop_instance of app.py: 200 with the operation, or
\* HTTPException(500) on any exception.
InstanceResponse(endpoint, r) ==
    [endpoint |-> endpoint, status |-> IF r.ok THEN 200 ELSE 500,
     error |-> r.error, count |-> 0, nextPageToken |-> None]

\* A listing handler that answers a failure like the other handlers do.
ListResponseStrict(l) ==
    [endpoint |-> "list", status |-> IF l.ok THEN 200 ELSE 500,
     error |-> l.error, count |-> Len(l.instances),
     nextPageToken |-> l.nextPageToken]

\* list_instances of app.py: the result, or on any exception a plain dict
\* carrying the error, which the framework answers with status 200.
ListResponse(l) ==
    [endpoint |-> "list", status |-> 200, error |-> l.error,
     count |-> Len(l.instances), nextPageToken |-> l.nextPageToken]

\* trigger_auto_start of app.py.
AutoStartResponse(out) ==
    [endpoint |-> "auto-start", status |-> IF out.raised THEN 500 ELSE 200,
     error |-> IF out.raised THEN out.value.error ELSE None,
     count |-> 0, nextPageToken |-> None]

\* What a caller of the management API may send.
ListQueries ==
    {<<DEFAULT_PAGE_SIZE, None>>, <<2, "">>, <<2, "p2">>}
InstanceIds == {1}
\* The folder GET /api/instances is tried against: two RUNNING instances
\* followed by a STOPPED one.
ApiFleets == {Fleet(2, <<<<"vm", "STOPPED">>>>)}

VARIABLES
    now,                \* the wall clock, int(time.time())
    cache,              \* contents of jwt_cache.json
    issued,             \* tokens the identity endpoint has issued
    bgpc,               \* background task: "sleep", "run" or "cancelled"
    wake,               \* when the pending asyncio.sleep(60) is due
    shutdownRequested,  \* the server was asked to stop
    cyc,                \* the auto-start cycle in progress or just finished
    lastJwt,            \* the _get_valid_jwt call of the step just taken
    lastCall,           \* the compute-service call of that step
    response            \* the management endpoint's answer of that step

vars == <<now, cache, issued, bgpc, wake, shutdownRequested, cyc, lastJwt,
          lastCall, response>>

\* lastJwt, response and the fields of a finished cycle describe the step
\* that led to the state; a step that makes no such call leaves none.
NoJwt ==
    [called |-> FALSE, ok |-> FALSE, token |-> None, expiry |-> 0, exch |-> 0,
     saved |-> "none", at |-> 0, retAt |-> 0, before |-> NoFile("absent"),
     afterAbsent |-> FALSE, answer |-> "none"]
\* before: the cache the call found; afterAbsent: the step before this one
\* made a call too, and that call found no cache file.
JwtLog(j, c, prev) ==
    [called |-> TRUE, ok |-> j.ok, token |-> j.token, expiry |-> j.expiry,
     exch |-> j.exch, saved |-> j.saved, at |-> j.at, retAt |-> j.retAt,
     before |-> c,
     afterAbsent |-> prev.called /\ prev.before.kind = "absent",
     answer |-> j.answer]
\* A list_instances, start_instance or stop_instance call that ended r: what
\* went out (sent, the bearer token of the Authorization header, the
\* pageToken parameter), what came back (status; 0 when no answer came) and
\* what the caller got.  asked is the page token the caller gave, provided the
\* nextPageToken of the provider's answer.
NoCall ==
    [made |-> FALSE, op |-> None, sent |-> FALSE, status |-> 0, ok |-> FALSE,
     error |-> None, token |-> None, asked |-> None, pageToken |-> None,
     provided |-> None, nextPageToken |-> None]
Call(op, r) ==
    [NoCall EXCEPT !.made = TRUE, !.op = op, !.sent = r.sent,
                   !.status = r.status, !.ok = r.ok, !.error = r.error,
                   !.token = r.token]
ListCall(page_token, l) ==
    [Call("list", l) EXCEPT !.asked = page_token,
                            !.pageToken = l.params.pageToken,
                            !.provided = l.provided,
                            !.nextPageToken = l.nextPageToken]
NoResponse ==
    [endpoint |-> None, status |-> 0, error |-> None, count |-> 0,
     nextPageToken |-> None]

\* phase: "idle" (no cycle), "list" (about to list), "start" (in the loop,
\* about to start stopped[i]), "done" (the call has just returned out).
\* later: the ids of the STOPPED instances the provider holds beyond the
\* listed page.  checks: the _get_valid_jwt calls the cycle has made.
\* listed: id and status of the instances of the listed page.
NewCycle(owner) ==
    [owner |-> owner, phase |-> "list", later |-> {}, listed |-> <<>>,
     stopped |-> <<>>,
     i |-> 1, started |-> <<>>, failed |-> <<>>, calls |-> <<>>,
     checks |-> 0, out |-> NoOutcome]
IdleCycle == [NewCycle(None) EXCEPT !.phase = "idle"]

\* No handler and no iteration holds the event loop.
LoopFree == cyc.phase \in {"idle", "done"}

\* The locals of a returned call are gone.
Forget(c) == IF c.phase = "done" THEN IdleCycle ELSE c

\* The server is up: lifespan has created the background task, which has run
\* to its first await.
Init ==
    /\ now = Start
    /\ cache \in InitCaches
    /\ issued = 0
    /\ bgpc = "sleep"
    /\ wake = Start + SLEEP_INTERVAL
    /\ shutdownRequested = FALSE
    /\ cyc = IdleCycle
    /\ lastJwt = NoJwt
    /\ lastCall = NoCall
    /\ response = NoResponse

\* The effects of one _get_valid_jwt call j.
TokenCheck(j) ==
    /\ cache' = j.after
    /\ issued' = issued + j.issued
    /\ lastJwt' = JwtLog(j, cache, lastJwt)

\* A cycle ends with out at time t: the background task goes back to sleep,
\* the trigger_auto_start handler answers.
EndCycle(c, out, t) ==
    /\ cyc' = [c EXCEPT !.phase = "done", !.out = out]
    /\ IF c.owner = "bg"
         THEN /\ bgpc' = AfterIteration(out)
              /\ wake' = t + SLEEP_INTERVAL
              /\ response' = NoResponse
         ELSE /\ response' = AutoStartResponse(out)
              /\ UNCHANGED <<bgpc, wake>>

\* asyncio.sleep(60) completes and the iteration begins.
BgWake ==
    /\ bgpc = "sleep"
    /\ LoopFree
    /\ wake <= MaxNow
    /\ now' = Max(now, wake)
    /\ bgpc' = "run"
    /\ cyc' = NewCycle("bg")
    /\ lastJwt' = NoJwt
    /\ lastCall' = NoCall
    /\ response' = NoResponse
    /\ UNCHANGED <<cache, issued, wake, shutdownRequested>>

\* A management request is served only while the server is up and the event
\* loop is free.
Serving == bgpc = "sleep" /\ LoopFree /\ ~shutdownRequested

\* POST /api/auto-start begins.
ApiAutoStart ==
    /\ Serving
    /\ cyc' = NewCycle("manual")
    /\ lastJwt' = NoJwt
    /\ lastCall' = NoCall
    /\ response' = NoResponse
    /\ UNCHANGED <<now, cache, issued, bgpc, wake, shutdownRequested>>

\* auto_start_stopped_instances up to the loop: list_instances(), the filter,
\* and, when the listing failed or nothing is stopped, the return.
CycleList ==
    /\ cyc.phase = "list"
    /\ \E j \in JwtRuns(cache, now, issued) : \E h \in HttpChoices(j) :
       \E fleet \in IF j.ok /\ h.status = 200 THEN Fleets ELSE {<<>>} :
         LET a == AutoStartListArgs
             l == ListInstances(a.page_size, a.page_token, j, h, fleet)
             stopped == StoppedInstances(l.instances)
             c == [cyc EXCEPT
                     !.later = {fleet[k].id : k \in
                                  {k \in (Len(l.instances) + 1)..Len(fleet) :
                                     IsStopped(fleet[k])}},
                     !.listed = [k \in 1..Len(l.instances) |->
                                   [id |-> l.instances[k].id,
                                    status |-> l.instances[k].status]],
                     !.stopped = stopped,
                     !.checks = cyc.checks + 1,
                     !.calls = <<CallLog("list", 0, l.params, l)>>]
         IN /\ l.retAt <= MaxNow
            /\ TokenCheck(j)
            /\ lastCall' = ListCall(a.page_token, l)
            /\ now' = l.retAt
            /\ IF ~l.ok
                 THEN EndCycle(c, ListFailure(l.error), l.retAt)
               ELSE IF Len(stopped) = 0
                 THEN EndCycle(c, BatchResult(<<>>, <<>>, stopped), l.retAt)
               ELSE /\ cyc' = [c EXCEPT !.phase = "start"]
                    /\ response' = NoResponse
                    /\ UNCHANGED <<bgpc, wake>>
    /\ UNCHANGED shutdownRequested

\* One pass of the loop: start_instance(stopped[i]); after the last pass the
\* result is returned.
CycleStart ==
    /\ cyc.phase = "start"
    /\ \E j \in JwtRuns(cache, now, issued) : \E h \in HttpChoices(j) :
         LET inst == cyc.stopped[cyc.i]
             r == StartInstance(j, h)
             started == StartedAfter(cyc.started, inst, r)
             failed == FailedAfter(cyc.failed, inst, r)
             c == [cyc EXCEPT !.started = started, !.failed = failed,
                              !.i = cyc.i + 1,
                              !.checks = cyc.checks + 1,
                              !.calls = Append(cyc.calls,
                                               CallLog("start", inst.id, NoParams, r))]
         IN /\ r.retAt <= MaxNow
            /\ TokenCheck(j)
            /\ lastCall' = Call("start", r)
            /\ now' = r.retAt
            /\ IF LoopDone(cyc.i, cyc.stopped, r)
                 THEN EndCycle(c, BatchResult(started, failed, cyc.stopped), r.retAt)
                 ELSE /\ cyc' = c
                      /\ response' = NoResponse
                      /\ UNCHANGED <<bgpc, wake>>
    /\ UNCHANGED shutdownRequested

\* GET /api/instances
ApiList ==
    /\ Serving
    /\ \E q \in ListQueries :
       \E j \in JwtRuns(cache, now, issued) : \E h \in HttpChoices(j) :
       \E fleet \in IF j.ok /\ h.status = 200 THEN ApiFleets ELSE {<<>>} :
         LET l == ListInstances(q[1], q[2], j, h, fleet)
         IN /\ l.retAt <= MaxNow
            /\ TokenCheck(j)
            /\ now' = l.retAt
            /\ lastCall' = ListCall(q[2], l)
            /\ response' = ListResponse(l)
    /\ cyc' = IdleCycle
    /\ UNCHANGED <<bgpc, wake, shutdownRequested>>

\* POST /api/instances/{id}/start
ApiStart ==
    /\ Serving
    /\ \E id \in InstanceIds :
       \E j \in JwtRuns(cache, now, issued) : \E h \in HttpChoices(j) :
         LET r == StartInstance(j, h)
         IN /\ r.retAt <= MaxNow
            /\ TokenCheck(j)
            /\ now' = r.retAt
            /\ lastCall' = Call("start", r)
            /\ response' = InstanceResponse("start", r)
    /\ cyc' = IdleCycle
    /\ UNCHANGED <<bgpc, wake, shutdownRequested>>

\* POST /api/instances/{id}/stop
ApiStop ==
    /\ Serving
    /\ \E id \in InstanceIds :
       \E j \in JwtRuns(cache, now, issued) : \E h \in HttpChoices(j) :
         LET r == StopInstance(j, h)
         IN /\ r.retAt <= MaxNow
            /\ TokenCheck(j)
            /\ now' = r.retAt
            /\ lastCall' = Call("stop", r)
            /\ response' = InstanceResponse("stop", r)
    /\ cyc' = IdleCycle
    /\ UNCHANGED <<bgpc, wake, shutdownRequested>>

\* The server is asked to stop (a signal); it may arrive at any time.
RequestShutdown ==
    /\ ~shutdownRequested
    /\ bgpc # "cancelled"
    /\ shutdownRequested' = TRUE
    /\ cyc' = Forget(cyc)
    /\ lastJwt' = NoJwt
    /\ lastCall' = NoCall
    /\ response' = NoResponse
    /\ UNCHANGED <<now, cache, issued, bgpc, wake>>

\* A cancellation delivered wherever the task happens to be.
CancellableMidIteration == bgpc \in {"sleep", "run"}

\* background_task.cancel() runs on the event loop, so only while no handler
\* or iteration is running, and CancelledError is raised in the task at its
\* await, the sleep it is suspended in.
Cancellable == bgpc = "sleep" /\ LoopFree

\* The exit half of lifespan: background_task.cancel() and await.
LifespanShutdown ==
    /\ shutdownRequested
    /\ Cancellable
    /\ bgpc' = AfterCancel
    /\ lastJwt' = NoJwt
    /\ lastCall' = NoCall
    /\ response' = NoResponse
    /\ UNCHANGED <<now, cache, issued, wake, shutdownRequested, cyc>>

Next ==
    \/ BgWake
    \/ ApiAutoStart
    \/ CycleList
    \/ CycleStart
    \/ ApiList
    \/ ApiStart
    \/ ApiStop
    \/ RequestShutdown
    \/ LifespanShutdown

Spec == Init /\ [][Next]_vars

\* The event loop runs what is ready: a timer that is due fires, a running
\* handler or iteration goes on to its end, and the shutdown code runs once
\* the loop is free.
FairSpec ==
    /\ Spec
    /\ SF_vars(BgWake)
    /\ WF_vars(CycleList)
    /\ WF_vars(CycleStart)
    /\ SF_vars(LifespanShutdown)

\* ------------------------------------------- an endpoint that never answers
\* The token check that is next would go to the identity endpoint.
RefreshDue ==
    LET l == Load(cache)
    IN /\ ~l.raised
       /\ ~(Truthy(l.token) /\ l.expiry = NonNumeric)
       /\ NeedsRefresh(l.token, l.expiry, now)

\* get_iam_token calls requests.post without a timeout: when the identity
\* endpoint accepts the connection and never answers, the call never returns.
\* It is made by a cycle (phase "exchange" from then on) or by a start, stop
\* or list handler, on the event loop's only thread.
ExchangeHangs ==
    /\ RefreshDue
    /\ \/ /\ cyc.phase \in {"list", "start"}
          /\ cyc' = [cyc EXCEPT !.phase = "exchange", !.checks = cyc.checks + 1]
       \/ /\ Serving
          /\ cyc' = [NewCycle("handler") EXCEPT !.phase = "exchange", !.checks = 1]
    /\ lastJwt' = [NoJwt EXCEPT !.called = TRUE, !.exch = 1, !.at = now,
                                !.before = cache, !.answer = "never"]
    /\ lastCall' = NoCall
    /\ response' = NoResponse
    /\ UNCHANGED <<now, cache, issued, bgpc, wake, shutdownRequested>>

NextUnanswered == Next \/ ExchangeHangs

\* The program with an identity endpoint that may leave a request unanswered.
SpecUnanswered == Init /\ [][NextUnanswered]_vars

\* ================================================================ claims
\* A cache file that holds a token: an object with a non-empty jwt and a
\* numeric expiry.
HoldsToken(c) == c.kind = "record" /\ Truthy(c.jwt) /\ c.expiry # NonNumeric

\* C1: every token _get_valid_jwt returns satisfies now < expires_at - 300 at
\* the moment it is returned, whatever the cache held and whatever expiry the
\* identity endpoint reported.
C1_ReturnedTokenValid ==
    (lastJwt.called /\ lastJwt.ok)
        => lastJwt.retAt < lastJwt.expiry - SAFETY_MARGIN

\* C2: when the cache holds a token with expires_at - now > 300, the call
\* makes no identity exchange, returns the cached token and leaves the cache
\* as it was.
C2_CachedTokenReused ==
    (lastJwt.called /\ HoldsToken(lastJwt.before)
       /\ lastJwt.before.expiry - lastJwt.at > SAFETY_MARGIN)
        => /\ lastJwt.ok
           /\ lastJwt.exch = 0
           /\ lastJwt.token = lastJwt.before.jwt
           /\ cache = lastJwt.before

C2_Witness ==
    /\ lastJwt.called /\ HoldsToken(lastJwt.before)
    /\ lastJwt.before.expiry - lastJwt.at > SAFETY_MARGIN
    /\ lastJwt.exch = 0
    /\ lastJwt.token = Tok(1)
    /\ cache = lastJwt.before

\* The cache file is missing, or holds a token with expires_at - now <= 300.
MissingOrNearExpired(c, t) ==
    \/ c.kind = "absent"
    \/ HoldsToken(c) /\ c.expiry - t <= SAFETY_MARGIN

\* C3 as stated: from a missing or near-expired cache a successful call makes
\* exactly one exchange, and the cache holds the new record when it returns.
C3_RefreshPersists ==
    (lastJwt.called /\ lastJwt.ok /\ MissingOrNearExpired(lastJwt.before, lastJwt.at))
        => /\ lastJwt.exch = 1
           /\ cache = CacheRecord(lastJwt.token, lastJwt.expiry)

\* C3 as amended: exactly one exchange, and the write is attempted before the
\* return; the cache holds the new record when the write succeeds, and does
\* not when the write fails (the file is left as it was, or truncated).
C3_RefreshPersistsUnlessWriteFails ==
    (lastJwt.called /\ lastJwt.ok /\ MissingOrNearExpired(lastJwt.before, lastJwt.at))
        => /\ lastJwt.exch = 1
           /\ lastJwt.saved \in SaveOutcomes
           /\ lastJwt.saved = "ok"
                => cache = CacheRecord(lastJwt.token, lastJwt.expiry)
           /\ lastJwt.saved = "openfail" => cache = lastJwt.before
           /\ lastJwt.saved = "writefail" => cache = NoFile("badjson")

C3_Witness ==
    /\ lastJwt.called /\ lastJwt.ok
    /\ HoldsToken(lastJwt.before)
    /\ lastJwt.before.expiry - lastJwt.at <= SAFETY_MARGIN
    /\ lastJwt.exch = 1
    /\ lastJwt.saved = "ok"
    /\ cache = CacheRecord(lastJwt.token, lastJwt.expiry)
    /\ cache # lastJwt.before

\* Two calls in successive steps, the first one finding no cache file and the
\* second one made less than a minute after it.
FirstThenSecond ==
    /\ lastJwt.called /\ lastJwt.before.kind = "absent"
    /\ lastJwt'.called
    /\ lastJwt'.at - lastJwt.at < 60

\* C4 as stated: from an absent cache file the first call makes exactly one
\* exchange, and a second call within the same minute makes none and returns
\* the same token.
C4_SecondCallReuses ==
    [][FirstThenSecond
         => /\ lastJwt.exch = 1
            /\ lastJwt'.exch = 0
            /\ lastJwt'.ok
            /\ lastJwt'.token = lastJwt.token]_vars

\* C4 as amended: the first call makes exactly one exchange; when it
\* succeeded, its record was written, and the second call is made while
\* now < expires_at - 300 for that record, the second call makes no exchange
\* and returns the same token.
C4_SecondCallReusesWhenCached ==
    [][FirstThenSecond
         => /\ lastJwt.exch = 1
            /\ (lastJwt.ok /\ lastJwt.saved = "ok"
                  /\ lastJwt'.at < lastJwt.expiry - SAFETY_MARGIN)
                 => /\ lastJwt'.exch = 0
                    /\ lastJwt'.ok
                    /\ lastJwt'.token = lastJwt.token]_vars

C4_Witness ==
    /\ lastJwt.called /\ lastJwt.afterAbsent
    /\ lastJwt.ok
    /\ lastJwt.exch = 0
    /\ lastJwt.token = Tok(1)
    /\ lastJwt.at < Start + 60

\* ------------------------------------------------------------ the batch
\* The call of auto_start_stopped_instances has returned or raised.
CycleDone == cyc.phase = "done"

\* Its list_instances call returned a page.
ListingSucceeded == CycleDone /\ cyc.calls[1].ok

\* The positions in cyc.calls of the start calls that raised.
FailedStarts == {k \in 2..Len(cyc.calls) : ~cyc.calls[k].ok}

\* C5: whenever the listing call of an auto_start_stopped_instances run
\* succeeds, the result it returns has total_stopped = len(started) +
\* len(failed), whichever start calls succeed or fail.
C5_TotalIsStartedPlusFailed ==
    ListingSucceeded
        => /\ ~cyc.out.raised
           /\ cyc.out.value.total_stopped
                = Len(cyc.out.value.started) + Len(cyc.out.value.failed)

C5_Witness ==
    /\ ListingSucceeded
    /\ Len(cyc.out.value.started) = 1
    /\ Len(cyc.out.value.failed) = 1
    /\ cyc.out.value.total_stopped = 2

\* C6: in a batch of N stopped instances where exactly one start call fails,
\* started has N - 1 entries, failed holds the failing instance with the error
\* of its call, every stopped instance was attempted in order (those after the
\* failing one too), and the operation returns instead of raising.
C6_OneFailureTolerated ==
    (ListingSucceeded /\ Cardinality(FailedStarts) = 1)
        => LET N == Len(cyc.stopped)
               k == CHOOSE k \in FailedStarts : TRUE
               v == cyc.out.value
           IN /\ ~cyc.out.raised
              /\ "error" \notin DOMAIN v
              /\ Len(v.started) = N - 1
              /\ Len(v.failed) = 1
              /\ v.failed[1].id = cyc.calls[k].id
              /\ v.failed[1].id = cyc.stopped[k - 1].id
              /\ v.failed[1].name = InstanceName(cyc.stopped[k - 1])
              /\ v.failed[1].error = cyc.calls[k].error
              /\ v.failed[1].error # None
              /\ Len(cyc.calls) = N + 1
              /\ \A m \in 1..N : /\ cyc.calls[m + 1].op = "start"
                                 /\ cyc.calls[m + 1].id = cyc.stopped[m].id

\* The first of two start calls fails and the second one is made and succeeds.
C6_Witness ==
    /\ ListingSucceeded
    /\ Len(cyc.stopped) = 2
    /\ FailedStarts = {2}
    /\ cyc.calls[3].ok
    /\ Len(cyc.out.value.started) = 1
    /\ cyc.out.value.started[1].id = cyc.stopped[2].id
    /\ cyc.out.value.failed[1].id = cyc.stopped[1].id

\* C7: when the listing step fails, by an API error or because no token could
\* be obtained, the operation makes no start call and returns
\* {started: [], failed: [], total_stopped: 0, error: ...}; it never raises.
C7_ListingFailureReported ==
    (CycleDone /\ ~cyc.calls[1].ok)
        => /\ Len(cyc.calls) = 1
           /\ cyc.calls[1].error # None
           /\ cyc.out = Returned([started |-> <<>>, failed |-> <<>>,
                                  total_stopped |-> 0,
                                  error |-> cyc.calls[1].error])

\* The listing failed because the token could not be obtained: no request
\* went out.
C7_Witness ==
    /\ CycleDone
    /\ ~cyc.calls[1].ok
    /\ ~cyc.calls[1].sent
    /\ ~cyc.out.raised
    /\ cyc.out.value.total_stopped = 0
    /\ cyc.out.value.error # None

\* C8: a cycle makes exactly one list_instances call, with page size 50 and no
\* page token; a STOPPED instance on a later page gets no start call, and a
\* cycle whose first page has no STOPPED instance starts nothing.
C8_FirstPageOnly ==
    (cyc.phase \in {"start", "done"})
        => /\ cyc.calls[1].op = "list"
           /\ cyc.calls[1].pageSize = DEFAULT_PAGE_SIZE
           /\ cyc.calls[1].pageToken = None
           /\ \A k \in 2..Len(cyc.calls) :
                /\ cyc.calls[k].op = "start"
                /\ cyc.calls[k].id \notin cyc.later
           /\ (CycleDone /\ cyc.calls[1].ok /\ Len(cyc.stopped) = 0)
                => /\ Len(cyc.calls) = 1
                   /\ cyc.out.value.started = <<>>
                   /\ cyc.out.value.total_stopped = 0

\* The only STOPPED instance is the 51st: the cycle ends with nothing started.
C8_Witness ==
    /\ ListingSucceeded
    /\ cyc.later = {DEFAULT_PAGE_SIZE + 1}
    /\ Len(cyc.stopped) = 0
    /\ Len(cyc.calls) = 1
    /\ cyc.out.value.started = <<>>

\* ------------------------------------------------------------ the loop
\* An iteration of the background task has just ended with an error reported
\* or with failed start calls, and the next wake-up lies within the horizon.
IterationFailed ==
    /\ CycleDone
    /\ cyc.owner = "bg"
    /\ \/ cyc.out.raised
       \/ "error" \in DOMAIN cyc.out.value
       \/ Len(cyc.out.value.failed) > 0
    /\ wake <= MaxNow

Answered == lastCall.made /\ lastCall.sent /\ lastCall.status # 0

\* C11 as stated: a list, start or stop call whose request the compute
\* endpoint answered fails exactly when the status is not 2xx, and the error
\* then carries the status; every 2xx answer is a success.
C11_FailsExactlyOnNon2xx ==
    Answered
        => /\ lastCall.ok <=> lastCall.status \in 200..299
           /\ ~lastCall.ok
                => \E prefix \in {"API request failed with status ",
                                  "Start operation failed with status ",
                                  "Stop operation failed with status "} :
                     lastCall.error = prefix \o ToString(lastCall.status)

\* The identity exchange of the step's token check failed: no connection,
\* or a non-2xx answer.
ExchangeFailed == lastJwt.called /\ lastJwt.answer \in ExchangeFailures

\* C12: when the identity exchange fails, _get_valid_jwt returns no token
\* after that one attempt and leaves the cache alone; the exception passes
\* through the list, start or stop operation that asked for the token, and no
\* request goes to the compute endpoint.
C12_ExchangeFailurePropagates ==
    ExchangeFailed
        => /\ ~lastJwt.ok
           /\ lastJwt.token = None
           /\ lastJwt.exch = 1
           /\ cache = lastJwt.before
           /\ lastCall.made
           /\ ~lastCall.sent
           /\ ~lastCall.ok
           /\ lastCall.error = ExchangeError(lastJwt.answer)

\* A start call of an auto-start batch met a non-2xx answer of the identity
\* endpoint.
C12_Witness ==
    /\ ExchangeFailed
    /\ lastJwt.answer = "non2xx"
    /\ lastJwt.exch = 1
    /\ lastCall.op = "start"
    /\ ~lastCall.sent
    /\ lastCall.error = "KeyError"
    /\ cyc.phase \in {"start", "done"}

\* ------------------------------------------------------ management API
\* C13: GET /api/instances always answers 200; when the listing or the token
\* check behind it failed, the body carries the error, no instance and a null
\* nextPageToken.
C13_ListAnswers200 ==
    (response.endpoint = "list")
        => /\ response.status = 200
           /\ lastCall.made /\ lastCall.op = "list"
           /\ lastCall.ok => response.error = None
           /\ ~lastCall.ok
                => /\ response.error # None
                   /\ response.error = lastCall.error
                   /\ response.count = 0
                   /\ response.nextPageToken = None

\* The token check behind a listing failed, and the answer is a 200 with the
\* error.
C13_Witness ==
    /\ response.endpoint = "list"
    /\ lastJwt.called /\ ~lastJwt.ok
    /\ ~lastCall.sent
    /\ response.status = 200
    /\ response.error = "TypeError"
    /\ response.count = 0

\* The request just answered met a failed token check or a failed compute
\* call.
FailureMet ==
    IF response.endpoint = "auto-start"
      THEN \E k \in 1..Len(cyc.calls) : ~cyc.calls[k].ok
      ELSE lastCall.made /\ ~lastCall.ok

\* C14 as stated: the start, stop and auto-start endpoints answer every
\* failure met while serving with a non-2xx status.
C14_OtherEndpointsAnswerNon2xx ==
    (response.endpoint \in {"start", "stop", "auto-start"} /\ FailureMet)
        => response.status \notin 200..299

\* ----------------------------------------------------------- pagination
\* A list_instances call whose request went out.
ListSent == lastCall.made /\ lastCall.op = "list" /\ lastCall.sent

\* C15 as stated: list_instances sends the caller's page token to the
\* provider as it is, whatever its value, and returns the provider's
\* nextPageToken as it is (null when the provider gives none).
C15_PageTokenPassedThrough ==
    ListSent
        => /\ lastCall.pageToken = lastCall.asked
           /\ lastCall.ok => lastCall.nextPageToken = lastCall.provided

\* C15 as amended: a non-empty page token is sent as it is; a null or empty
\* one is left out of the request; the provider's nextPageToken is returned
\* as it is, by list_instances and by GET /api/instances.
C15_NonEmptyPageTokenPassedThrough ==
    ListSent
        => /\ Truthy(lastCall.asked) => lastCall.pageToken = lastCall.asked
           /\ ~Truthy(lastCall.asked) => lastCall.pageToken = None
           /\ lastCall.ok => lastCall.nextPageToken = lastCall.provided
           /\ (lastCall.ok /\ response.endpoint = "list")
                => response.nextPageToken = lastCall.provided

\* The second page was asked for with the token of the first.
C15_Witness ==
    /\ ListSent
    /\ lastCall.asked = "p2"
    /\ lastCall.pageToken = "p2"
    /\ lastCall.ok
    /\ lastCall.provided = None
    /\ response.nextPageToken = None
    /\ response.count = 1

\* -------------------------------------------------- a token per call
\* C16: every list, start or stop call makes its own token check and sends
\* the token that check returned; a cached token that is near-expired at the
\* time of a call is replaced before the request goes out; and a cycle that
\* lists N stopped instances makes N + 1 token checks, one per call.
C16_EachCallChecksToken ==
    /\ lastCall.made
         => /\ lastJwt.called
            /\ lastCall.sent <=> lastJwt.ok
            /\ lastCall.sent => lastCall.token = lastJwt.token
    /\ (lastCall.made /\ HoldsToken(lastJwt.before)
          /\ lastJwt.before.expiry - lastJwt.at <= SAFETY_MARGIN)
         => /\ lastJwt.exch = 1
            /\ lastCall.sent => lastCall.token # lastJwt.before.jwt
    /\ cyc.phase \in {"start", "done"} => cyc.checks = Len(cyc.calls)
    /\ ListingSucceeded => cyc.checks = Len(cyc.stopped) + 1

\* The listing of a batch went out with the cached token, which was then
\* near-expired at the first start call: that call went out with a new one.
C16_Witness ==
    /\ ListingSucceeded
    /\ Len(cyc.stopped) = 2
    /\ cyc.checks = 3
    /\ cyc.calls[1].token = Tok(0)
    /\ cyc.calls[2].sent
    /\ cyc.calls[2].token = Tok(1)
    /\ cyc.calls[3].sent

\* ------------------------------------------------------- cache errors
\* The cache write of the step's refresh failed.
WriteFailed == lastJwt.called /\ lastJwt.saved \in {"openfail", "writefail"}

\* C17: when the cache write of a refresh fails, _get_valid_jwt still returns
\* the token it has just exchanged, raises nothing, and the cache is left
\* without the new record; the operation that asked goes on with the token.
C17_WriteFailureSwallowed ==
    WriteFailed
        => /\ lastJwt.ok
           /\ lastJwt.exch = 1
           /\ lastJwt.answer = "ok"
           /\ Truthy(lastJwt.token)
           /\ cache # CacheRecord(lastJwt.token, lastJwt.expiry)
           /\ cache \in {lastJwt.before, NoFile("badjson")}
           /\ lastCall.made
                => lastCall.sent /\ lastCall.token = lastJwt.token

\* The write failed after the file was truncated, and the call that asked for
\* the token succeeded with it.
C17_Witness ==
    /\ WriteFailed
    /\ lastJwt.saved = "writefail"
    /\ lastJwt.ok
    /\ lastJwt.token = Tok(1)
    /\ cache = NoFile("badjson")
    /\ lastCall.ok
    /\ lastCall.token = Tok(1)

\* A cache file that gives no usable record: absent, unreadable, not JSON,
\* JSON that is no object, or a record whose jwt is missing or whose expiry is
\* no number.
CacheUnusable(c) ==
    \/ c.kind \in {"absent", "unreadable", "badjson", "nonobject"}
    \/ c.kind = "record" /\ (~Truthy(c.jwt) \/ c.expiry = NonNumeric)

\* C18 as stated: whatever is wrong with the cache file, _get_valid_jwt takes
\* it for a cache miss and goes on to the identity exchange instead of
\* failing on the read.
C18_CacheReadNeverFatal ==
    (lastJwt.called /\ CacheUnusable(lastJwt.before))
        => lastJwt.exch = 1

\* ------------------------------------------------------------ timeouts
\* A cycle or a handler is inside a call.
InProgress == cyc.phase \notin {"idle", "done"}

\* C19 as stated: every outbound call has a timeout, so a cycle or handler
\* that is inside a call can always go on: the call returns or fails, and the
\* event loop with the background task on it is never stuck in it.
C19_EveryCallReturns ==
    InProgress => ENABLED (CycleList \/ CycleStart)

\* ---------------------------------------------------------- concurrency
\* C20 as stated: in whatever order the token checks of the background cycle
\* and of the request handlers follow one another, each of them makes at most
\* one exchange, each of them that returns a token returns one with
\* now < expires_at - 300, and a refresh that wrote the cache leaves one
\* record there, token and expiry of the same exchange.
C20_OnlyRedundantRefreshes ==
    lastJwt.called
        => /\ lastJwt.exch <= 1
           /\ lastJwt.ok => lastJwt.retAt < lastJwt.expiry - SAFETY_MARGIN
           /\ (lastJwt.ok /\ lastJwt.saved = "ok")
                => cache = CacheRecord(lastJwt.token, lastJwt.expiry)

\* ------------------------------------------------------ the start calls
\* The ids of the instances of the listed page whose status is STOPPED, in
\* listing order.
ListedStoppedIds ==
    LET IsListedStopped(e) == e.status = "STOPPED"
        sel == SelectSeq(cyc.listed, IsListedStopped)
    IN [k \in 1..Len(sel) |-> sel[k].id]

\* C21: after its listing a cycle makes start calls only, one for each
\* instance of the listed page whose status is STOPPED, in listing order and
\* never twice for an instance, whether or not the call fails; an instance
\* with any other status gets no call, and no stop call is made.
C21_StartsExactlyListedStopped ==
    (cyc.phase \in {"start", "done"} /\ cyc.calls[1].ok)
        => LET n == Len(cyc.calls) - 1
           IN /\ n <= Len(ListedStoppedIds)
              /\ cyc.phase = "done" => n = Len(ListedStoppedIds)
              /\ \A k \in 1..n :
                   /\ cyc.calls[k + 1].op = "start"
                   /\ cyc.calls[k + 1].id = ListedStoppedIds[k]
              /\ \A k, m \in 2..Len(cyc.calls) :
                   cyc.calls[k].id = cyc.calls[m].id => k = m
              /\ \A e \in {cyc.listed[k] : k \in 1..Len(cyc.listed)} :
                   e.status # "STOPPED"
                     => \A k \in 2..Len(cyc.calls) : cyc.calls[k].id # e.id

\* The page lists a STOPPING instance and a STOPPED one: the cycle ends after
\* one start call, to the STOPPED one, which failed and was not repeated.
C21_Witness ==
    /\ CycleDone
    /\ cyc.calls[1].ok
    /\ Len(cyc.listed) = 2
    /\ cyc.listed[1].status = "STOPPING"
    /\ cyc.listed[2].status = "STOPPED"
    /\ Len(cyc.calls) = 2
    /\ cyc.calls[2].op = "start"
    /\ cyc.calls[2].id = cyc.listed[2].id
    /\ ~cyc.calls[2].ok

\* The start calls of the cycle that failed before any request went out:
\* their token check raised.
TokenlessStarts == {k \in 2..Len(cyc.calls) : ~cyc.calls[k].sent}

\* C22: when the token check of a start call in a batch fails, the failure is
\* recorded in failed for that one instance, every stopped instance is still
\* attempted, and the batch returns its ordinary result, not the top-level
\* error result.
C22_TokenFailureStaysInBatch ==
    (ListingSucceeded /\ TokenlessStarts # {})
        => LET v == cyc.out.value
           IN /\ ~cyc.out.raised
              /\ "error" \notin DOMAIN v
              /\ v.total_stopped = Len(cyc.stopped)
              /\ Len(cyc.calls) = Len(cyc.stopped) + 1
              /\ \A k \in TokenlessStarts :
                   /\ ~cyc.calls[k].ok
                   /\ Cardinality({m \in 1..Len(v.failed) :
                                     v.failed[m].id = cyc.calls[k].id}) = 1
                   /\ \E m \in 1..Len(v.failed) :
                        /\ v.failed[m].id = cyc.calls[k].id
                        /\ v.failed[m].error = cyc.calls[k].error
                   /\ \A m \in 1..Len(v.started) :
                        v.started[m].id # cyc.calls[k].id

\* The listing went out with the cached token; at the first start call the
\* token was near-expired and the exchange failed; the second start call
\* obtained a new token and succeeded.
C22_Witness ==
    /\ ListingSucceeded
    /\ Len(cyc.stopped) = 2
    /\ cyc.calls[1].token = Tok(0)
    /\ TokenlessStarts = {2}
    /\ cyc.calls[2].error \in {"ConnectionError", "KeyError"}
    /\ cyc.calls[3].ok
    /\ cyc.calls[3].token = Tok(1)
    /\ Len(cyc.out.value.failed) = 1
    /\ Len(cyc.out.value.started) = 1

\* The token check of the step went to the identity endpoint and failed.
RefreshFailed == lastJwt.called /\ lastJwt.exch = 1 /\ ~lastJwt.ok

\* C23: a _get_valid_jwt call whose exchange failed leaves the cache file as
\* it found it, and the token check that comes next finds that same cache
\* and goes to the identity endpoint again.
C23_FailedExchangeKeepsCache ==
    /\ [](RefreshFailed => cache = lastJwt.before)
    /\ [][(RefreshFailed /\ lastJwt'.called)
            => /\ lastJwt'.before = lastJwt.before
               /\ lastJwt'.exch = 1]_vars

\* Two start calls of a batch in a row met a failed exchange, and the cache
\* still holds the near-expired record the first of them found.
C23_Witness ==
    /\ RefreshFailed
    /\ lastJwt.answer \in ExchangeFailures
    /\ HoldsToken(lastJwt.before)
    /\ cache = lastJwt.before
    /\ Len(cyc.calls) = 3
    /\ ~cyc.calls[2].sent
    /\ cyc.calls[2].error \in {"ConnectionError", "KeyError"}
    /\ ~cyc.calls[3].sent
    /\ cyc.calls[3].error \in {"ConnectionError", "KeyError"}

====
